---- MODULE Spec2Model ----
(***************************************************************************)
(* WalletContractV4 (src/improved-code-sample.ts): construction of the     *)
(* wallet descriptor and the asynchronous provider operations built on it. *)
(*                                                                         *)
(* Conventions.  Maybe<T> is a sequence: <<>> is undefined/null, <<v>> is  *)
(* the value v.  A Buffer is a sequence of bytes (0..255).  An exception   *)
(* is a record [name, message]; an operator that can throw returns a       *)
(* record with an  err  field holding Maybe<exception>.  A number that is   *)
(* written to a cell is kept as two 16-bit limbs [hi, lo], its value being *)
(* hi * 2^16 + lo with 0 <= lo < 2^16; every other number is an integer    *)
(* below 2^31.  A Cell is an object: it has an identity (id) next to its   *)
(* content, and cells are compared and hashed by content.                  *)
(***************************************************************************)
EXTENDS Integers, Sequences, FiniteSets, TLC

VARIABLES
    lastCreate,   \* the most recent call of WalletContractV4.create: its arguments,
                  \* the number of Cell objects built before it, and its outcome
    prevCreate,   \* the call of create before that one
    heap,         \* the number of Cell objects built so far
    inv           \* the invocations in flight: one record per slot

vars == <<lastCreate, prevCreate, heap, inv>>

None == <<>>
Some(v) == <<v>>

Error(message) == [name |-> "Error", message |-> message]

\* the number n, for an integer n of the model
Num(n) == [hi |-> n \div 65536, lo |-> n % 65536]

-----------------------------------------------------------------------------
(* ton-core: BitBuilder / Builder / Cell / Slice, as far as the wallet uses *)
(* them (spec sections 4.1 and 4.2).                                        *)

CELL_MAX_BITS == 1023

\* bit k (0 = least significant) of the non-negative number v
BitAt(v, k) ==
    IF k < 16 THEN (v.lo \div (2 ^ k)) % 2
    ELSE IF k > 46 THEN 0
    ELSE (v.hi \div (2 ^ (k - 16))) % 2

\* v fits an unsigned integer of n bits: 0 <= v < 2^n
FitsUint(v, n) ==
    /\ v.hi >= 0
    /\ IF n <= 16 THEN v.hi = 0 /\ v.lo < 2 ^ n
       ELSE n > 46 \/ v.hi < 2 ^ (n - 16)

\* big-endian, most significant bit first
UintBits(v, n) == [i \in 1..n |-> BitAt(v, n - i)]

BufferBits(buf) ==
    [i \in 1..(8 * Len(buf)) |->
        (buf[((i - 1) \div 8) + 1] \div (2 ^ (7 - ((i - 1) % 8)))) % 2]

RECURSIVE BitsToUint(_)
BitsToUint(s) ==
    IF s = <<>> THEN 0
    ELSE 2 * BitsToUint(SubSeq(s, 1, Len(s) - 1)) + s[Len(s)]

\* readUint of 16 bits or more
BitsToNum(s) ==
    [hi |-> BitsToUint(SubSeq(s, 1, Len(s) - 16)),
     lo |-> BitsToUint(SubSeq(s, Len(s) - 15, Len(s)))]

BitsToBuffer(s) ==
    [j \in 1..(Len(s) \div 8) |-> BitsToUint(SubSeq(s, 8 * (j - 1) + 1, 8 * j))]

beginCell == [err |-> None, bits |-> <<>>, refs |-> <<>>]

storeUint(b, value, n) ==
    IF b.err # None THEN b
    ELSE IF ~FitsUint(value, n)
        THEN [b EXCEPT !.err = Some([name |-> "RangeError", message |-> "value is out of range"])]
    ELSE IF Len(b.bits) + n > CELL_MAX_BITS
        THEN [b EXCEPT !.err = Some([name |-> "RangeError", message |-> "BitBuilder overflow"])]
    ELSE [b EXCEPT !.bits = @ \o UintBits(value, n)]

storeBuffer(b, buf) ==
    IF b.err # None THEN b
    ELSE IF Len(b.bits) + 8 * Len(buf) > CELL_MAX_BITS
        THEN [b EXCEPT !.err = Some([name |-> "RangeError", message |-> "BitBuilder overflow"])]
    ELSE [b EXCEPT !.bits = @ \o BufferBits(buf)]

storeBit(b, bit) ==
    IF b.err # None THEN b
    ELSE IF Len(b.bits) + 1 > CELL_MAX_BITS
        THEN [b EXCEPT !.err = Some([name |-> "RangeError", message |-> "BitBuilder overflow"])]
    ELSE [b EXCEPT !.bits = Append(@, bit)]

\* the finished cell, a new object id, or the exception of the first failed
\* store
endCell(b, id) ==
    IF b.err # None THEN [err |-> b.err, cell |-> None]
    ELSE IF Len(b.bits) > CELL_MAX_BITS
        THEN [err |-> Some([name |-> "OverflowError", message |-> "cell overflow"]), cell |-> None]
    ELSE [err |-> None, cell |-> Some([id |-> id, bits |-> b.bits, refs |-> b.refs])]

\* Cell.fromBoc(Buffer.from(b64, 'base64'))[0]: the cell of the embedded
\* constant, a new object id, its content kept as the constant it is decoded
\* from
Cell_fromBoc(b64, id) == [err |-> None, cell |-> Some([id |-> id, boc |-> b64])]

\* what a cell holds, whichever object holds it
Content(cell) == [f \in (DOMAIN cell) \ {"id"} |-> cell[f]]

\* the state-init hash stands for itself: equal exactly for (code, data) of
\* equal content
contractAddress(workchain, init) ==
    [workchain |-> workchain, hash |-> <<Content(init.code), Content(init.data)>>]

\* reading a wallet data cell back: loadUint(32), loadUint(32), loadBuffer(32), loadBit()
ReadWalletState(cell) ==
    [seqno |-> BitsToNum(SubSeq(cell.bits, 1, 32)),
     wallet_id |-> BitsToNum(SubSeq(cell.bits, 33, 64)),
     public_key |-> BitsToBuffer(SubSeq(cell.bits, 65, 320)),
     plugins_empty_flag |-> cell.bits[321]]

-----------------------------------------------------------------------------
(* WalletContractV4: construction                                           *)

WALLET_CODE_BASE64 ==
    "te6ccgECFAEAAtQAART/APSkE/S88sgLAQIBIAIDAgFIBAUE+PKDCNcYINMf0x/THwL4I7vyZO1E0NMf0x/T//QE0VFDuvKhUVG68qIF+QFUEGT5EPKj+AAkpMjLH1JAyx9SMMv/UhD0AMntVPgPAdMHIcAAn2xRkyDXSpbTB9QC+wDoMOAhwAHjACHAAuMAAcADkTDjDQOkyMsfEssfy/8QERITAubQAdDTAyFxsJJfBOAi10nBIJJfBOAC0x8hghBwbHVnvSKCEGRzdHK9sJJfBeAD+kAwIPpEAcjKB8v/ydDtRNCBAUDXIfQEMFyBAQj0Cm+hMbOSXwfgBdM/yCWCEHBsdWe6kjgw4w0DghBkc3RyupJfBuMNBgcCASAICQB4AfoA9AQw+CdvIjBQCqEhvvLgUIIQcGx1Z4MesXCAGFAEywUmzxZY+gIZ9ADLaRfLH1Jgyz8gyYBA+wAGAIpQBIEBCPRZMO1E0IEBQNcgyAHPFvQAye1UAXKwjiOCEGRzdHKDHrFwgBhQBcsFUAPPFiP6AhPLassfyz/JgED7AJJfA+ICASAKCwBZvSQrb2omhAgKBrkPoCGEcNQICEekk30pkQzmkD6f+YN4EoAbeBAUiYcVnzGEAgFYDA0AEbjJftRNDXCx+AA9sp37UTQgQFA1yH0BDACyMoHy//J0AGBAQj0Cm+hMYAIBIA4PABmtznaiaEAga5Drhf/AABmvHfaiaEAQa5DrhY/AAG7SB/oA1NQi+QAFyMoHFcv/ydB3dIAYyMsFywIizxZQBfoCFMtrEszMyXP7AMhAFIEBCPRR8qcCAHCBAQjXGPoA0z/IVCBHgQEI9FHyp4IQbm90ZXB0gBjIywXLAlAGzxZQBPoCFMtqEssfyz/Jc/sAAgBsgQEI1xj6ANM/MFIkgQEI9Fnyp4IQZHN0cnB0gBjIywXLAlAFzxZQA/oCE8tqyx8Syz/Jc/sAAAr0AMntVA=="

DEFAULT_WALLET_ID == 698983191

\* the cells are built one after the other: the code cell is object
\* cells + 1 and the data cell object cells + 2, after the cells built before
buildCode(cells) ==
    LET r == Cell_fromBoc(WALLET_CODE_BASE64, cells + 1)
    IN  IF r.err # None
        THEN [err |-> Some(Error("Failed to build code cell: " \o r.err[1].message)), cell |-> None]
        ELSE r

\* a data cell without the plugins bit
buildData_NoPluginsBit(walletId, publicKey, cells) ==
    endCell(storeBuffer(storeUint(storeUint(beginCell, Num(0), 32), walletId, 32), publicKey),
            cells + 2)

buildData(walletId, publicKey, cells) ==
    LET r == endCell(storeBit(storeBuffer(storeUint(storeUint(beginCell, Num(0), 32),
                                                    walletId, 32),
                                          publicKey),
                              0),
                     cells + 2)
    IN  IF r.err # None
        THEN [err |-> Some(Error("Failed to build data cell: " \o r.err[1].message)), cell |-> None]
        ELSE r

\* walletId || (698983191 + workchain): a supplied 0 taken for a missing id
ResolveWalletId_Falsy(workchain, walletId) ==
    IF walletId = None \/ walletId[1] = Num(0) THEN Num(698983191 + workchain) ELSE walletId[1]

\* walletId ?? (698983191 + workchain)
ResolveWalletId(workchain, walletId) ==
    IF walletId = None THEN Num(DEFAULT_WALLET_ID + workchain) ELSE walletId[1]

\* what a constructor run leaves: the exception or the wallet, the building
\* steps it went through, and the number of Cell objects built by then
Thrown(e, built, cells) == [err |-> Some(e), wallet |-> None, built |-> built, heap |-> cells]

\* a default walletId that counts on with what was built before
Build_DefaultIdCounts(workchain, publicKey, walletId, cells) ==
    LET wid  == IF walletId = None THEN Num(DEFAULT_WALLET_ID + workchain + cells)
                ELSE walletId[1]
        code == buildCode(cells)
        data == buildData(wid, publicKey, cells)
    IN  IF code.err # None THEN Thrown(code.err[1], <<"code">>, cells)
        ELSE IF data.err # None THEN Thrown(data.err[1], <<"code", "data">>, cells + 1)
        ELSE [err |-> None,
              wallet |-> Some([workchain |-> workchain,
                               publicKey |-> publicKey,
                               walletId |-> wid,
                               init |-> [code |-> code.cell[1], data |-> data.cell[1]],
                               address |-> contractAddress(workchain,
                                               [code |-> code.cell[1], data |-> data.cell[1]])]),
              built |-> <<"code", "data", "address">>,
              heap |-> cells + 2]

\* the constructor after validation: resolve the parameters, build code and
\* data, derive the address
Build(workchain, publicKey, walletId, cells) ==
    LET wid  == ResolveWalletId(workchain, walletId)
        code == buildCode(cells)
        data == buildData(wid, publicKey, cells)
    IN  IF code.err # None THEN Thrown(code.err[1], <<"code">>, cells)
        ELSE IF data.err # None THEN Thrown(data.err[1], <<"code", "data">>, cells + 1)
        ELSE [err |-> None,
              wallet |-> Some([workchain |-> workchain,
                               publicKey |-> publicKey,
                               walletId |-> wid,
                               init |-> [code |-> code.cell[1], data |-> data.cell[1]],
                               address |-> contractAddress(workchain,
                                               [code |-> code.cell[1], data |-> data.cell[1]])]),
              built |-> <<"code", "data", "address">>,
              heap |-> cells + 2]

\* a key check that only rejects keys longer than 32 bytes
Constructor_KeyAtMost32(workchain, publicKey, walletId, cells) ==
    IF workchain < -1 \/ workchain > 0
        THEN Thrown(Error("Invalid workchain ID: must be -1 or 0"), <<>>, cells)
    ELSE IF publicKey = None \/ Len(publicKey[1]) > 32
        THEN Thrown(Error("Invalid public key: must be 32 bytes"), <<>>, cells)
    ELSE Build(workchain, publicKey[1], walletId, cells)

Constructor(workchain, publicKey, walletId, cells) ==
    IF workchain < -1 \/ workchain > 0
        THEN Thrown(Error("Invalid workchain ID: must be -1 or 0"), <<>>, cells)
    ELSE IF publicKey = None \/ Len(publicKey[1]) # 32
        THEN Thrown(Error("Invalid public key: must be 32 bytes"), <<>>, cells)
    ELSE Build(workchain, publicKey[1], walletId, cells)

create(args, cells) == Constructor(args.workchain, args.publicKey, args.walletId, cells)

-----------------------------------------------------------------------------
(* Inputs of create                                                         *)

Bytes(n, f) == [i \in 1..n |-> (f * i) % 256]

\* the largest and the first too large value of a 32-bit unsigned integer
UINT32_MAX == [hi |-> 65535, lo |-> 65535]
UINT32_OVER == [hi |-> 65536, lo |-> 0]

Workchains == {-2, -1, 0, 1}
PublicKeys == {None, Some(<<>>), Some(Bytes(31, 0)), Some(Bytes(32, 0)),
               Some(Bytes(32, 37)), Some(Bytes(33, 0))}
WalletIds  == {None, Some(Num(0)), Some(Num(7)), Some(Num(-1)),
               Some(UINT32_MAX), Some(UINT32_OVER)}

ValidPublicKeys == {Some(Bytes(32, 0)), Some(Bytes(32, 37))}

\* every workchain with every key; every walletId with every workchain and
\* key that pass validation; a walletId that cannot be stored with a
\* workchain or a key that fails validation
CreateArgs ==
    [workchain : Workchains, publicKey : PublicKeys, walletId : {None}]
    \cup [workchain : {-1, 0}, publicKey : ValidPublicKeys, walletId : WalletIds]
    \cup [workchain : {1}, publicKey : {Some(Bytes(32, 37))},
          walletId : {Some(Num(-1)), Some(UINT32_OVER)}]
    \cup [workchain : {0}, publicKey : {Some(Bytes(31, 0))},
          walletId : {Some(Num(-1)), Some(UINT32_OVER)}]

NoCall == <<>>

\* the number of Cell objects the model follows
MaxCells == 4

Create ==
    /\ heap + 2 <= MaxCells
    /\ \E args \in CreateArgs :
          lastCreate' = Some([args |-> args, at |-> heap, out |-> create(args, heap)])
    /\ heap' = lastCreate'[1].out.heap
    /\ prevCreate' = lastCreate
    /\ UNCHANGED inv

-----------------------------------------------------------------------------
(* WalletContractV4: transfers and provider operations                      *)

\* the wallet the operations are invoked on; its fields are readonly
this == create([workchain |-> -1, publicKey |-> Some(Bytes(32, 37)),
                walletId |-> Some(Num(7))], 0).wallet[1]

PAY_GAS_SEPARATELY == 1

\* ./signing/createWalletTransfer: the signed transfer cell stands for the
\* arguments it was built and signed from
createWalletTransferV4(args) == [signed |-> args]

\* ton-core internal(): the MessageRelaxed built from its source fields
internal(src) == [to |-> src.to, value |-> src.value, init |-> src.init,
                  body |-> src.body, bounce |-> src.bounce]

\* an empty message list let through to the signer
createTransfer_EmptyMessagesPass(self, args) ==
    IF args.secretKey = None \/ Len(args.secretKey[1]) # 64
        THEN [err |-> Some(Error("Invalid secret key: must be 64 bytes")),
              cell |-> None, signer |-> <<>>]
    ELSE IF args.messages = None
        THEN [err |-> Some(Error("No messages to send")), cell |-> None, signer |-> <<>>]
    ELSE
        LET sendMode == IF args.sendMode = None THEN 1 ELSE args.sendMode[1]
            sargs == [seqno |-> args.seqno,
                      sendMode |-> sendMode,
                      secretKey |-> args.secretKey[1],
                      messages |-> args.messages[1],
                      timeout |-> args.timeout,
                      walletId |-> self.walletId]
        IN  [err |-> None, cell |-> Some(createWalletTransferV4(sargs)), signer |-> <<sargs>>]

\* args.sendMode || PAY_GAS_SEPARATELY: a supplied 0 taken for a missing mode
createTransfer_FalsySendMode(self, args) ==
    IF args.secretKey = None \/ Len(args.secretKey[1]) # 64
        THEN [err |-> Some(Error("Invalid secret key: must be 64 bytes")),
              cell |-> None, signer |-> <<>>]
    ELSE IF args.messages = None \/ Len(args.messages[1]) = 0
        THEN [err |-> Some(Error("No messages to send")), cell |-> None, signer |-> <<>>]
    ELSE
        LET sendMode == IF args.sendMode = None \/ args.sendMode[1] = 0 THEN 1
                        ELSE args.sendMode[1]
            sargs == [seqno |-> args.seqno,
                      sendMode |-> sendMode,
                      secretKey |-> args.secretKey[1],
                      messages |-> args.messages[1],
                      timeout |-> args.timeout,
                      walletId |-> self.walletId]
        IN  [err |-> None, cell |-> Some(createWalletTransferV4(sargs)), signer |-> <<sargs>>]

\* the exception or the cell, and the calls made to the signer
createTransfer(self, args) ==
    IF args.secretKey = None \/ Len(args.secretKey[1]) # 64
        THEN [err |-> Some(Error("Invalid secret key: must be 64 bytes")),
              cell |-> None, signer |-> <<>>]
    ELSE IF args.messages = None \/ Len(args.messages[1]) = 0
        THEN [err |-> Some(Error("No messages to send")), cell |-> None, signer |-> <<>>]
    ELSE
        LET sendMode == IF args.sendMode = None THEN PAY_GAS_SEPARATELY ELSE args.sendMode[1]
            sargs == [seqno |-> args.seqno,
                      sendMode |-> sendMode,
                      secretKey |-> args.secretKey[1],
                      messages |-> args.messages[1],
                      timeout |-> args.timeout,
                      walletId |-> self.walletId]
        IN  [err |-> None, cell |-> Some(createWalletTransferV4(sargs)), signer |-> <<sargs>>]

\* the catch clause of each async method: a new Error carrying the message
CatchPrefix(frame) ==
    CASE frame = "getBalance"   -> "Failed to get balance: "
      [] frame = "getSeqno"     -> "Failed to get seqno: "
      [] frame = "send"         -> "Failed to send message: "
      [] frame = "sendTransfer" -> "Failed to send transfer: "
      [] frame = "senderSend"   -> "Sender error: "

\* a catch clause that rethrows what it caught
Catch_Rethrow(frame, e) == e

Catch(frame, e) == Error(CatchPrefix(frame) \o e.message)

-----------------------------------------------------------------------------
(* Invocations.  frames is the stack of async methods of the wallet that    *)
(* are running or awaiting (outermost first); events is what the invocation *)
(* has called so far, provider and signer calls in order, each with its     *)
(* reply.  When an inner method settles, the method awaiting it resumes in  *)
(* a later turn of the event loop: until then pc is "resume" and settled    *)
(* holds the inner method's name and outcome.                               *)

MaxInv == 2
Slots == 1..MaxInv

Idle == [op |-> "idle", pc |-> "idle", frames |-> <<>>, args |-> None,
         events |-> <<>>, settled |-> None, result |-> None]

ProviderCall(method, args) ==
    [kind |-> "provider", method |-> method, args |-> args, reply |-> None]
SignerCall(sargs) ==
    [kind |-> "signer", method |-> "createWalletTransferV4", args |-> <<sargs>>,
     reply |-> Some([ok |-> TRUE, value |-> createWalletTransferV4(sargs)])]

Resolved(value) == Some([ok |-> TRUE, value |-> value])
Rejected(e) == Some([ok |-> FALSE, error |-> e])

\* the pending (last) event gets its reply
Replied(events, reply) == [events EXCEPT ![Len(events)].reply = reply]

Done(r, result) == [r EXCEPT !.pc = "done", !.frames = <<>>, !.result = result]

\* await provider.<method>(args) in the current frame
Await(r, method, args) ==
    [r EXCEPT !.pc = method, !.events = Append(@, ProviderCall(method, args))]

\* the innermost method of r settles its promise with outcome: the caller
\* of the invocation has it, or the method awaiting it will resume with it
Settle(r, outcome) ==
    IF Len(r.frames) <= 1 THEN Done(r, outcome)
    ELSE [r EXCEPT !.pc = "resume",
                   !.frames = SubSeq(@, 1, Len(@) - 1),
                   !.settled = Some([method |-> r.frames[Len(r.frames)],
                                     outcome |-> outcome])]

\* an exception thrown in the try block of the innermost method of r (thrown
\* as it is where there is no try block: createTransfer, sender)
Throw(r, e) ==
    IF r.frames = <<>> THEN Done(r, Rejected(e))
    ELSE Settle(r, Rejected(Catch(r.frames[Len(r.frames)], e)))

\* this.send(provider, message), called from the innermost frame of r
send(r, message) ==
    Await([r EXCEPT !.frames = Append(@, "send")], "external", <<message>>)

\* the body of sendTransfer and of Sender.send from createTransfer on
TransferAndSend(r, targs) ==
    LET t == createTransfer(this, targs)
        r1 == [r EXCEPT !.events = @ \o [k \in 1..Len(t.signer) |-> SignerCall(t.signer[k])]]
    IN  IF t.err # None THEN Throw(r1, t.err[1])
        ELSE send(r1, t.cell[1])

\* the transfer built before the seqno was read
SenderTransferArgs_SeqnoNotRead(r, seqno) ==
    [seqno |-> 0,
     secretKey |-> Some(r.args[1].secretKey),
     sendMode |-> r.args[1].args.sendMode,
     messages |-> Some(<<internal(
         [to |-> r.args[1].args.to,
          value |-> r.args[1].args.value,
          init |-> r.args[1].args.init,
          body |-> r.args[1].args.body,
          bounce |-> IF r.args[1].args.bounce = None THEN TRUE
                     ELSE r.args[1].args.bounce[1]])>>),
     timeout |-> None]

\* the arguments Sender.send hands to createTransfer
SenderTransferArgs(r, seqno) ==
    [seqno |-> seqno,
     secretKey |-> Some(r.args[1].secretKey),
     sendMode |-> r.args[1].args.sendMode,
     messages |-> Some(<<internal(
         [to |-> r.args[1].args.to,
          value |-> r.args[1].args.value,
          init |-> r.args[1].args.init,
          body |-> r.args[1].args.body,
          bounce |-> IF r.args[1].args.bounce = None THEN TRUE
                     ELSE r.args[1].args.bounce[1]])>>),
     timeout |-> None]

\* getSeqno returns seqno
GetSeqnoReturns(r, seqno) == Settle(r, Resolved(Some(seqno)))

\* provider.get called whatever the contract's state
getSeqnoAfterState_AlwaysGet(r, state) == Await(r, "get", <<"seqno", <<>>>>)

\* getSeqno, once provider.getState() has returned state
getSeqnoAfterState(r, state) ==
    IF state.state.type = "active"
    THEN Await(r, "get", <<"seqno", <<>>>>)
    ELSE GetSeqnoReturns(r, 0)

\* getBalance, once provider.getState() has returned state
getBalanceAfterState(r, state) == Settle(r, Resolved(Some(state.balance)))

-----------------------------------------------------------------------------
(* Inputs of the operations and replies of the provider                     *)

SecretKeys == {None, Some(Bytes(63, 0)), Some(Bytes(64, 0))}
Message1 == internal([to |-> "EQ_a", value |-> 1, init |-> None, body |-> None, bounce |-> TRUE])
\* sendMode and timeout are left out together or given together; they are
\* varied where the arguments pass validation
TransferArgs ==
    {[seqno |-> 3, secretKey |-> k, messages |-> m, sendMode |-> o[1], timeout |-> o[2]] :
        k \in SecretKeys,
        m \in {None, Some(<<>>), Some(<<Message1>>)},
        o \in {<<None, None>>}}
    \cup
    {[seqno |-> 3, secretKey |-> Some(Bytes(64, 0)), messages |-> Some(<<Message1>>),
      sendMode |-> Some(0), timeout |-> Some(60)]}
SenderArgs == [to : {"EQ_a"}, value : {1}, init : {None}, body : {None},
               bounce : {None}, sendMode : {None}]
SignedCells == {createWalletTransferV4([seqno |-> 3, sendMode |-> 0, secretKey |-> Bytes(64, 0),
                                        messages |-> <<Message1>>, timeout |-> None,
                                        walletId |-> Num(7)])}

ProviderStates == {[balance |-> 5, state |-> [type |-> "active"]],
                   [balance |-> 0, state |-> [type |-> "uninitialized"]],
                   [balance |-> 5, state |-> [type |-> "frozen"]]}
SeqnoValues == {3, 4}
TransportErrors == {[name |-> "TransportError", message |-> "timeout"]}

-----------------------------------------------------------------------------
(* Calls                                                                    *)

CallGetBalance(i) ==
    /\ inv[i].pc = "idle"
    /\ inv' = [inv EXCEPT ![i] =
                  Await([Idle EXCEPT !.op = "getBalance", !.frames = <<"getBalance">>],
                        "getState", <<>>)]
    /\ UNCHANGED <<lastCreate, prevCreate, heap>>

CallGetSeqno(i) ==
    /\ inv[i].pc = "idle"
    /\ inv' = [inv EXCEPT ![i] =
                  Await([Idle EXCEPT !.op = "getSeqno", !.frames = <<"getSeqno">>],
                        "getState", <<>>)]
    /\ UNCHANGED <<lastCreate, prevCreate, heap>>

CallSend(i) ==
    /\ inv[i].pc = "idle"
    /\ \E message \in SignedCells :
          inv' = [inv EXCEPT ![i] =
                     send([Idle EXCEPT !.op = "send", !.args = Some(message)], message)]
    /\ UNCHANGED <<lastCreate, prevCreate, heap>>

CallCreateTransfer(i) ==
    /\ inv[i].pc = "idle"
    /\ \E args \in TransferArgs :
          LET t == createTransfer(this, args)
              r == [Idle EXCEPT !.op = "createTransfer", !.args = Some(args),
                                !.events = [k \in 1..Len(t.signer) |-> SignerCall(t.signer[k])]]
          IN  inv' = [inv EXCEPT ![i] =
                         IF t.err # None THEN Throw(r, t.err[1])
                         ELSE Done(r, Resolved(t.cell))]
    /\ UNCHANGED <<lastCreate, prevCreate, heap>>

CallSendTransfer(i) ==
    /\ inv[i].pc = "idle"
    /\ \E args \in TransferArgs :
          inv' = [inv EXCEPT ![i] =
                     TransferAndSend([Idle EXCEPT !.op = "sendTransfer", !.args = Some(args),
                                                  !.frames = <<"sendTransfer">>],
                                     args)]
    /\ UNCHANGED <<lastCreate, prevCreate, heap>>

\* sender(provider, secretKey): throws, or returns the Sender holding secretKey
CallSender(i) ==
    /\ inv[i].pc = "idle"
    /\ \E secretKey \in SecretKeys :
          LET r == [Idle EXCEPT !.op = "sender", !.args = Some([secretKey |-> secretKey])]
          IN  inv' = [inv EXCEPT ![i] =
                         IF secretKey = None \/ Len(secretKey[1]) # 64
                         THEN Throw(r, Error("Invalid secret key: must be 64 bytes"))
                         ELSE Done(r, Resolved(Some([secretKey |-> secretKey[1]])))]
    /\ UNCHANGED <<lastCreate, prevCreate, heap>>

\* Sender.send(args) on the Sender that slot i holds
SenderSend(i) ==
    /\ inv[i].op = "sender" /\ inv[i].pc = "done" /\ inv[i].result[1].ok
    /\ \E args \in SenderArgs :
          inv' = [inv EXCEPT ![i] =
                     Await([Idle EXCEPT !.op = "senderSend",
                                        !.args = Some([secretKey |-> inv[i].result[1].value[1].secretKey,
                                                       args |-> args]),
                                        !.frames = <<"senderSend", "getSeqno">>],
                           "getState", <<>>)]
    /\ UNCHANGED <<lastCreate, prevCreate, heap>>

-----------------------------------------------------------------------------
(* The provider answers                                                     *)

GetStateReturns(i) ==
    /\ inv[i].pc = "getState"
    /\ \E state \in ProviderStates :
          LET r == [inv[i] EXCEPT !.events = Replied(@, Resolved(state))]
          IN  inv' = [inv EXCEPT ![i] =
                         IF r.frames[Len(r.frames)] = "getBalance"
                         THEN getBalanceAfterState(r, state)
                         ELSE getSeqnoAfterState(r, state)]
    /\ UNCHANGED <<lastCreate, prevCreate, heap>>

GetReturns(i) ==
    /\ inv[i].pc = "get"
    /\ \E n \in SeqnoValues :
          LET res == [stack |-> <<n>>]
              r == [inv[i] EXCEPT !.events = Replied(@, Resolved(res))]
          IN  inv' = [inv EXCEPT ![i] = GetSeqnoReturns(r, res.stack[1])]
    /\ UNCHANGED <<lastCreate, prevCreate, heap>>

\* send returns once provider.external has
ExternalReturns(i) ==
    /\ inv[i].pc = "external"
    /\ inv' = [inv EXCEPT ![i] =
                  Settle([inv[i] EXCEPT !.events = Replied(@, Resolved(None))], Resolved(None))]
    /\ UNCHANGED <<lastCreate, prevCreate, heap>>

\* a failed provider call answered with a default value
ProviderThrows_Swallowed(r, e) ==
    Settle([r EXCEPT !.events = Replied(@, Rejected(e))], Resolved(Some(0)))

\* the awaited provider call rejects with e
ProviderThrows(r, e) == Throw([r EXCEPT !.events = Replied(@, Rejected(e))], e)

GetStateFails(i) ==
    /\ inv[i].pc = "getState"
    /\ \E e \in TransportErrors : inv' = [inv EXCEPT ![i] = ProviderThrows(inv[i], e)]
    /\ UNCHANGED <<lastCreate, prevCreate, heap>>

GetFails(i) ==
    /\ inv[i].pc = "get"
    /\ \E e \in TransportErrors : inv' = [inv EXCEPT ![i] = ProviderThrows(inv[i], e)]
    /\ UNCHANGED <<lastCreate, prevCreate, heap>>

ExternalFails(i) ==
    /\ inv[i].pc = "external"
    /\ \E e \in TransportErrors : inv' = [inv EXCEPT ![i] = ProviderThrows(inv[i], e)]
    /\ UNCHANGED <<lastCreate, prevCreate, heap>>

-----------------------------------------------------------------------------
(* The awaiting method resumes                                              *)

\* Sender.send after  await this.getSeqno(provider)  has given the seqno
SenderSendAfterGetSeqno(i) ==
    /\ inv[i].pc = "resume"
    /\ inv[i].settled[1].method = "getSeqno"
    /\ inv[i].settled[1].outcome[1].ok
    /\ inv' = [inv EXCEPT ![i] =
                  LET r == [inv[i] EXCEPT !.settled = None]
                  IN  TransferAndSend(r, SenderTransferArgs(r,
                          inv[i].settled[1].outcome[1].value[1]))]
    /\ UNCHANGED <<lastCreate, prevCreate, heap>>

\* sendTransfer and Sender.send after  await this.send(provider, transfer)
AfterSend(i) ==
    /\ inv[i].pc = "resume"
    /\ inv[i].settled[1].method = "send"
    /\ inv[i].settled[1].outcome[1].ok
    /\ inv' = [inv EXCEPT ![i] = Settle([inv[i] EXCEPT !.settled = None], Resolved(None))]
    /\ UNCHANGED <<lastCreate, prevCreate, heap>>

\* the awaited method has thrown: the catch clause of the awaiting one
AwaitThrows(i) ==
    /\ inv[i].pc = "resume"
    /\ ~inv[i].settled[1].outcome[1].ok
    /\ inv' = [inv EXCEPT ![i] =
                  Throw([inv[i] EXCEPT !.settled = None], inv[i].settled[1].outcome[1].error)]
    /\ UNCHANGED <<lastCreate, prevCreate, heap>>

\* the caller has taken the outcome; the slot is free again
Return(i) ==
    /\ inv[i].pc = "done"
    /\ inv' = [inv EXCEPT ![i] = Idle]
    /\ UNCHANGED <<lastCreate, prevCreate, heap>>

Init ==
    /\ lastCreate = NoCall
    /\ prevCreate = NoCall
    /\ heap = 0
    /\ inv = [i \in Slots |-> Idle]

Next ==
    \E i \in Slots :
        \/ CallGetBalance(i)
        \/ CallGetSeqno(i)
        \/ CallSend(i)
        \/ CallCreateTransfer(i)
        \/ CallSendTransfer(i)
        \/ CallSender(i)
        \/ SenderSend(i)
        \/ GetStateReturns(i)
        \/ GetReturns(i)
        \/ ExternalReturns(i)
        \/ GetStateFails(i)
        \/ GetFails(i)
        \/ ExternalFails(i)
        \/ SenderSendAfterGetSeqno(i)
        \/ AfterSend(i)
        \/ AwaitThrows(i)
        \/ Return(i)

Spec == Init /\ [][Next]_vars

-----------------------------------------------------------------------------
InitCreate ==
    /\ lastCreate = NoCall
    /\ prevCreate = NoCall
    /\ heap = 0
    /\ inv = [i \in Slots |-> Idle]

NextCreate == Create

SpecCreate == InitCreate /\ [][NextCreate]_vars

-----------------------------------------------------------------------------
(* Properties of create (checked under SpecCreate)                          *)

Called == lastCreate # NoCall
Args == lastCreate[1].args
Out == lastCreate[1].out
Succeeded == Called /\ Out.err = None
ValidWorkchain == Args.workchain \in {-1, 0}
ValidPublicKey == Args.publicKey # None /\ Len(Args.publicKey[1]) = 32
\* the walletId is omitted or lies in 0 .. 2^32 - 1
WalletIdEncodable ==
    \/ Args.walletId = None
    \/ Args.walletId[1].hi >= 0 /\ Args.walletId[1].hi <= 65535
ValidationMessages == {"Invalid workchain ID: must be -1 or 0",
                       "Invalid public key: must be 32 bytes"}
RejectedByValidation ==
    /\ Out.err # None
    /\ Out.err[1].name = "Error"
    /\ Out.err[1].message \in ValidationMessages
    /\ Out.wallet = None
    /\ Out.built = <<>>
    /\ Out.heap = lastCreate[1].at
FailedInBuildData ==
    /\ Out.err # None
    /\ Out.err[1].name = "Error"
    /\ Out.err[1].message \notin ValidationMessages
    /\ Out.wallet = None
    /\ Out.built = <<"code", "data">>

\* C1 as stated: create returns a wallet exactly when workchain is -1 or 0
\* and publicKey is 32 bytes; otherwise it fails in validation, with no
\* wallet and nothing built.
C1_Original ==
    Called =>
        IF ValidWorkchain /\ ValidPublicKey
        THEN Out.err = None /\ Out.wallet # None
        ELSE RejectedByValidation

\* C1 amended: every integer workchain other than -1 and 0, and every key
\* that is missing or not 32 bytes long, is rejected by validation before
\* anything is built; with both valid, create returns a wallet exactly when
\* the walletId is omitted or is an integer in 0 .. 2^32 - 1, and for every
\* other integer walletId (below 0, or 2^32 and above) it fails in buildData,
\* after the code cell was built, with no wallet.
C1_CreateValidates ==
    Called =>
        IF ~(ValidWorkchain /\ ValidPublicKey) THEN RejectedByValidation
        ELSE IF WalletIdEncodable
        THEN /\ Out.err = None
             /\ Out.wallet # None
             /\ Out.built = <<"code", "data", "address">>
        ELSE FailedInBuildData

C1_Witness ==
    /\ prevCreate # NoCall
    /\ prevCreate[1].args.workchain = 0
    /\ prevCreate[1].args.publicKey = Some(Bytes(32, 0))
    /\ prevCreate[1].args.walletId = Some([hi |-> 65536, lo |-> 0])
    /\ prevCreate[1].out.err # None
    /\ prevCreate[1].out.built = <<"code", "data">>
    /\ Called /\ Args.workchain = 1 /\ ValidPublicKey /\ RejectedByValidation

\* C2: a successful create resolves an omitted walletId to 698983191 + workchain
\* and keeps a supplied walletId, 0 included, unchanged.
C2_WalletIdResolved ==
    Succeeded =>
        LET wid == Out.wallet[1].walletId
        IN  IF Args.walletId = None
            THEN /\ wid.lo \in 0..65535
                 /\ wid.hi * 65536 + wid.lo =
                        (IF Args.workchain = 0 THEN 698983191 ELSE 698983190)
            ELSE wid = Args.walletId[1]

C2_Witness ==
    /\ Succeeded /\ Args.walletId = Some([hi |-> 0, lo |-> 0])
    /\ Out.wallet[1].walletId = [hi |-> 0, lo |-> 0]
    /\ prevCreate # NoCall /\ prevCreate[1].out.err = None
    /\ prevCreate[1].args.walletId = None /\ prevCreate[1].args.workchain = -1

\* C3: the data cell of a successful create is seqno 0 on 32 bits, the
\* resolved walletId on 32 bits, the 32 key bytes and one 0 bit, in this
\* order: 321 bits, no references, and it reads back as that wallet state.
C3_DataCellLayout ==
    Succeeded =>
        LET w == Out.wallet[1]
            data == w.init.data
        IN  /\ Len(data.bits) = 321
            /\ Len(data.bits) <= 1023
            /\ data.refs = <<>>
            /\ \A i \in 1..32 : data.bits[i] = 0
            /\ \A i \in 1..16 :
                   /\ data.bits[32 + i] = (w.walletId.hi \div (2 ^ (16 - i))) % 2
                   /\ data.bits[48 + i] = (w.walletId.lo \div (2 ^ (16 - i))) % 2
            /\ \A j \in 1..32 : \A b \in 1..8 :
                   data.bits[64 + 8 * (j - 1) + b] = (Args.publicKey[1][j] \div (2 ^ (8 - b))) % 2
            /\ data.bits[321] = 0
            /\ ReadWalletState(data) = [seqno |-> [hi |-> 0, lo |-> 0],
                                        wallet_id |-> w.walletId,
                                        public_key |-> Args.publicKey[1],
                                        plugins_empty_flag |-> 0]

C3_Witness ==
    /\ Succeeded /\ Args.walletId = Some([hi |-> 0, lo |-> 7])
    /\ Args.publicKey = Some(Bytes(32, 37))
    /\ ReadWalletState(Out.wallet[1].init.data).wallet_id = [hi |-> 0, lo |-> 7]
    /\ prevCreate # NoCall /\ prevCreate[1].out.err = None
    /\ prevCreate[1].args.walletId = Some([hi |-> 65535, lo |-> 65535])
    /\ prevCreate[1].out.wallet[1].init.data.bits[33] = 1

\* C4: two create calls with the same arguments give the same address, code
\* cell and data cell, whatever was built in between; the address carries the
\* workchain argument and is derived from the (code, data) pair kept in init.
C4_AddressDeterministic ==
    /\ Succeeded =>
          /\ Out.wallet[1].address.workchain = Args.workchain
          /\ Out.wallet[1].address = contractAddress(Args.workchain,
                 [code |-> Out.wallet[1].init.code, data |-> Out.wallet[1].init.data])
          /\ ReadWalletState(Out.wallet[1].init.data).wallet_id = Out.wallet[1].walletId
    /\ (Called /\ prevCreate # NoCall /\ prevCreate[1].args = Args) =>
          /\ prevCreate[1].out.err = Out.err
          /\ Succeeded =>
                LET a == prevCreate[1].out.wallet[1]
                    b == Out.wallet[1]
                IN  /\ a.address = b.address
                    /\ a.init.code.boc = b.init.code.boc
                    /\ a.init.data.bits = b.init.data.bits
                    /\ a.init.data.refs = b.init.data.refs

\* the same arguments twice, the second time on a heap with other cells: the
\* cells of the two wallets are different objects
C4_Witness ==
    /\ Succeeded /\ prevCreate # NoCall /\ prevCreate[1].args = Args
    /\ Args.walletId = None /\ Args.workchain = -1
    /\ prevCreate[1].at # lastCreate[1].at
    /\ prevCreate[1].out.wallet[1].init.code.id # Out.wallet[1].init.code.id
    /\ prevCreate[1].out.wallet[1].init.data.id # Out.wallet[1].init.data.id

-----------------------------------------------------------------------------
(* Properties of the transfers and provider operations (checked under Spec) *)

IsProvider(e, method) == e.kind = "provider" /\ e.method = method
Calls(r, method) == Len(SelectSeq(r.events, LAMBDA e : IsProvider(e, method)))
SignerCalls(r) == SelectSeq(r.events, LAMBDA e : e.kind = "signer")
IsRejected(e) == e.reply # None /\ ~e.reply[1].ok
IsResolved(e) == e.reply # None /\ e.reply[1].ok
Failed(r) == r.pc = "done" /\ r.result # None /\ ~r.result[1].ok
Completed(r) == r.pc = "done" /\ r.result # None /\ r.result[1].ok

BadSecretKey(k) == k = None \/ Len(k[1]) # 64
BadMessages(m) == m = None \/ m[1] = <<>>
InvalidTransferArgs(a) == BadSecretKey(a.secretKey) \/ BadMessages(a.messages)

\* C5: createTransfer with a secretKey that is not 64 bytes or with no
\* messages fails in validation without calling the signer; through
\* sendTransfer the provider's external is not called either.
C5_InvalidTransferRejected ==
    \A i \in Slots :
        LET r == inv[i] IN
        (r.op \in {"createTransfer", "sendTransfer"} /\ InvalidTransferArgs(r.args[1])) =>
            /\ Failed(r)
            /\ r.result[1].error.name = "Error"
            /\ SignerCalls(r) = <<>>
            /\ Calls(r, "external") = 0
            /\ r.events = <<>>
            /\ r.op = "createTransfer" =>
                  r.result[1].error.message =
                      (IF BadSecretKey(r.args[1].secretKey)
                       THEN "Invalid secret key: must be 64 bytes"
                       ELSE "No messages to send")

C5_Witness ==
    \E i, j \in Slots :
        /\ inv[i].op = "sendTransfer" /\ inv[i].args[1].messages = Some(<<>>)
        /\ ~BadSecretKey(inv[i].args[1].secretKey) /\ Failed(inv[i])
        /\ inv[j].op = "createTransfer" /\ BadSecretKey(inv[j].args[1].secretKey)
        /\ Failed(inv[j])

\* C6: createTransfer with valid arguments calls the signer exactly once,
\* with the caller's seqno, secretKey, messages and timeout, the wallet's
\* walletId and the caller's sendMode or PAY_GAS_SEPARATELY, and returns
\* the signer's cell.
C6_TransferDelegated ==
    \A i \in Slots :
        LET r == inv[i]
            a == r.args[1]
        IN  (r.op = "createTransfer" /\ ~InvalidTransferArgs(a)) =>
                /\ Len(r.events) = 1
                /\ r.events[1].kind = "signer"
                /\ r.events[1].args =
                       <<[seqno |-> a.seqno,
                          sendMode |-> IF a.sendMode = None THEN 1 ELSE a.sendMode[1],
                          secretKey |-> a.secretKey[1],
                          messages |-> a.messages[1],
                          timeout |-> a.timeout,
                          walletId |-> this.walletId]>>
                /\ Completed(r)
                /\ r.result[1].value = Some(r.events[1].reply[1].value)

C6_Witness ==
    \E i, j \in Slots :
        /\ inv[i].op = "createTransfer" /\ Completed(inv[i])
        /\ inv[i].args[1].sendMode = Some(0) /\ inv[i].args[1].timeout = Some(60)
        /\ inv[j].op = "createTransfer" /\ Completed(inv[j])
        /\ inv[j].args[1].sendMode = None

\* C7 as stated: the error the caller receives is the error the provider raised.
C7_Original ==
    \A i \in Slots : \A k \in 1..Len(inv[i].events) :
        (inv[i].pc = "done" /\ inv[i].events[k].kind = "provider" /\ IsRejected(inv[i].events[k])) =>
            /\ Failed(inv[i])
            /\ inv[i].result[1].error = inv[i].events[k].reply[1].error

\* the context the catch clauses put before the provider's message
Context(op, method) ==
    CASE op = "getBalance"   -> "Failed to get balance: "
      [] op = "getSeqno"     -> "Failed to get seqno: "
      [] op = "send"         -> "Failed to send message: "
      [] op = "sendTransfer" -> "Failed to send transfer: Failed to send message: "
      [] op = "senderSend" /\ method = "external" -> "Sender error: Failed to send message: "
      [] op = "senderSend" /\ method # "external" -> "Sender error: Failed to get seqno: "

\* the context of the method that made the provider call
InnerContext(method) ==
    IF method = "external" THEN "Failed to send message: " ELSE "Failed to get seqno: "

\* C7 amended: the caller receives a new Error whose message is the
\* provider error's message behind the context of every method on the way
\* (innermost last); the provider's error object and its kind are not kept.
\* Until the awaiting method has resumed, what it will catch is the new
\* Error of the method that made the call.
C7_TransportErrorWrapped ==
    \A i \in Slots : \A k \in 1..Len(inv[i].events) :
        (inv[i].events[k].kind = "provider" /\ IsRejected(inv[i].events[k])) =>
            IF inv[i].pc = "done"
            THEN /\ Failed(inv[i])
                 /\ inv[i].result[1].error =
                        [name |-> "Error",
                         message |-> Context(inv[i].op, inv[i].events[k].method)
                                         \o inv[i].events[k].reply[1].error.message]
            ELSE /\ inv[i].pc = "resume"
                 /\ inv[i].op \in {"sendTransfer", "senderSend"}
                 /\ inv[i].settled[1].outcome =
                        Rejected([name |-> "Error",
                                  message |-> InnerContext(inv[i].events[k].method)
                                                  \o inv[i].events[k].reply[1].error.message])

C7_Witness ==
    \E i, j \in Slots :
        /\ inv[i].op = "sendTransfer" /\ Calls(inv[i], "external") = 1
        /\ IsRejected(inv[i].events[Len(inv[i].events)])
        /\ Failed(inv[i])
        /\ inv[i].result[1].error.message =
               "Failed to send transfer: Failed to send message: timeout"
        /\ inv[j].op = "senderSend" /\ Calls(inv[j], "get") = 1
        /\ IsRejected(inv[j].events[Len(inv[j].events)])

\* C8: an invocation calls each provider operation at most once, calls
\* nothing after a failed provider call, and ends in failure whenever a
\* provider call failed: it has failed, or the method awaiting the failed
\* one is about to resume with the exception.
C8_SingleShot ==
    \A i \in Slots :
        /\ \A m \in {"getState", "get", "external"} : Calls(inv[i], m) <= 1
        /\ \A k \in 1..Len(inv[i].events) :
              IsRejected(inv[i].events[k]) =>
                  /\ k = Len(inv[i].events)
                  /\ \/ Failed(inv[i])
                     \/ /\ inv[i].pc = "resume"
                        /\ ~inv[i].settled[1].outcome[1].ok

C8_Witness ==
    \E i, j \in Slots :
        /\ inv[i].op = "senderSend" /\ Calls(inv[i], "getState") = 1
        /\ Calls(inv[i], "get") = 1 /\ Calls(inv[i], "external") = 1
        /\ IsRejected(inv[i].events[Len(inv[i].events)]) /\ Failed(inv[i])
        /\ inv[j].op = "getBalance" /\ IsRejected(inv[j].events[1]) /\ Failed(inv[j])

\* C9: getSeqno calls getState first; for an active contract it then calls
\* get('seqno', []) and returns the number on the stack; for any other
\* state it returns 0 without calling get.
C9_GetSeqno ==
    \A i \in Slots :
        LET r == inv[i]
            ev == r.events
        IN  r.op = "getSeqno" =>
                /\ Len(ev) >= 1
                /\ IsProvider(ev[1], "getState")
                /\ ev[1].reply = None => (Len(ev) = 1 /\ r.pc = "getState")
                /\ (IsResolved(ev[1]) /\ ev[1].reply[1].value.state.type = "active") =>
                      /\ Len(ev) = 2
                      /\ IsProvider(ev[2], "get")
                      /\ ev[2].args = <<"seqno", <<>>>>
                      /\ ev[2].reply = None => r.pc = "get"
                      /\ IsResolved(ev[2]) =>
                            /\ Completed(r)
                            /\ r.result[1].value = Some(ev[2].reply[1].value.stack[1])
                /\ (IsResolved(ev[1]) /\ ev[1].reply[1].value.state.type # "active") =>
                      /\ Len(ev) = 1
                      /\ Calls(r, "get") = 0
                      /\ Completed(r)
                      /\ r.result[1].value = Some(0)

C9_Witness ==
    \E i, j \in Slots :
        /\ inv[i].op = "getSeqno" /\ Completed(inv[i]) /\ Calls(inv[i], "get") = 1
        /\ inv[i].result[1].value = Some(4)
        /\ inv[j].op = "getSeqno" /\ Completed(inv[j]) /\ Calls(inv[j], "get") = 0
        /\ inv[j].events[1].reply[1].value.state.type = "uninitialized"

\* the seqno an invocation of Sender.send has read: the number on the stack
\* of its own get call, or 0 for a contract that is not active
SeqnoRead(ev) ==
    IF ev[1].reply[1].value.state.type = "active"
    THEN ev[2].reply[1].value.stack[1]
    ELSE 0

\* C10: an invocation of Sender.send reads the seqno, builds the signed
\* transfer, then broadcasts: external is called at most once, after this
\* invocation's getSeqno and createTransfer succeeded, with the transfer
\* built from the seqno this invocation read, whatever other invocations
\* do meanwhile; sender() rejects a secretKey that is not 64 bytes and
\* returns no Sender then.
C10_SenderOrder ==
    \A i \in Slots :
        LET r == inv[i]
            ev == r.events
        IN  /\ r.op = "sender" =>
                  IF BadSecretKey(r.args[1].secretKey)
                  THEN /\ Failed(r)
                       /\ r.result[1].error = [name |-> "Error",
                                               message |-> "Invalid secret key: must be 64 bytes"]
                  ELSE /\ Completed(r)
                       /\ r.result[1].value = Some([secretKey |-> r.args[1].secretKey[1]])
            /\ r.op = "senderSend" =>
                  /\ Len(r.args[1].secretKey) = 64
                  /\ IsProvider(ev[1], "getState")
                  /\ Calls(r, "external") <= 1
                  /\ \A k \in 1..Len(ev) :
                        IsProvider(ev[k], "external") =>
                            LET active == ev[1].reply[1].value.state.type = "active"
                                n == IF active THEN 2 ELSE 1  \* events of getSeqno
                            IN  /\ IsResolved(ev[1])
                                /\ active => (IsProvider(ev[2], "get") /\ IsResolved(ev[2]))
                                /\ k = n + 2
                                /\ k = Len(ev)
                                /\ ev[n + 1].kind = "signer"
                                /\ ev[n + 1].args[1].seqno = SeqnoRead(ev)
                                /\ ev[n + 1].args[1].secretKey = r.args[1].secretKey
                                /\ ev[n + 1].args[1].walletId = this.walletId
                                /\ ev[k].args = <<ev[n + 1].reply[1].value>>
                                /\ ev[k].args[1].signed.seqno = SeqnoRead(ev)

C10_Witness ==
    \E i, j \in Slots :
        /\ inv[i].op = "senderSend" /\ inv[i].pc = "external"
        /\ inv[i].events[Len(inv[i].events)].args[1].signed.seqno = 3
        /\ inv[j].op = "senderSend" /\ inv[j].pc = "external"
        /\ inv[j].events[Len(inv[j].events)].args[1].signed.seqno = 4

====
